---- MODULE Spec2Model ----
(***************************************************************************)
(* A model of diffrax/_autocitation.py: the `citation` entry point (the    *)
(* argument binder, the rule dispatcher and the renderer), the registered  *)
(* citation rules, and the reference store (`_parse_reference`,            *)
(* `_parse_reference_multi`, both memoised by functools.lru_cache).        *)
(*                                                                         *)
(* Text is a sequence of tokens.  A token is one character-like unit: the  *)
(* line break, one blank, the code fence (three backticks, written FENCE  *)
(* here), or a word (any run of characters holding neither white space    *)
(* nor a backtick).                                                        *)
(***************************************************************************)
EXTENDS Integers, Sequences, FiniteSets, TLC

VARIABLES
    citation_rules, \* the registry: the list `citation_rules`
    doc,            \* __doc__ of every documented object
    cache_ref,      \* lru_cache of _parse_reference: key -> text
    cache_multi,    \* lru_cache of _parse_reference_multi: key -> list object
    made,           \* per object, the list objects _parse_reference_multi built so far
    call,           \* the operation last invoked, with its inputs
    result,         \* how it ended: returned value or raised exception
    printed,        \* what it wrote to stdout: the sequence of print() texts
    invoked,        \* citation: the rules it invoked, in order, with their arguments
    scanned,        \* the scans of documentation it made, in order
    kwargs,         \* citation: the canonical argument map it built
    prev,           \* outcome of the preceding identical invocation, if there was one
    th              \* the threads calling into the reference store concurrently

vars == <<citation_rules, doc, cache_ref, cache_multi, made, call, result,
          printed, invoked, scanned, kwargs, prev, th>>

(***************************************************************************)
(* Bounds of the model.                                                    *)
(***************************************************************************)
\* reference blocks in one object's documentation: 0..MaxBlocks
MaxBlocks == 2
\* named arguments in one call of citation that draws its values freely
MaxSupplied == 2
\* calls each thread makes into the reference store
MaxThreadCalls == 1

(***************************************************************************)
(* Text.                                                                   *)
(***************************************************************************)
NL == "\n"
SP == " "
FENCE == "FENCE"

IsSpace(t) == t \in {NL, SP}

\* s ++ t for a sequence of sequences
RECURSIVE Concat(_)
Concat(ss) == IF ss = <<>> THEN <<>> ELSE Head(ss) \o Concat(Tail(ss))

RECURSIVE Rep(_, _)
Rep(t, n) == IF n <= 0 THEN <<>> ELSE <<t>> \o Rep(t, n - 1)

Contains(s, t) == \E i \in 1..Len(s) : s[i] = t

RECURSIVE LStrip(_)
LStrip(s) ==
    IF s = <<>> THEN s
    ELSE IF IsSpace(Head(s)) THEN LStrip(Tail(s)) ELSE s

RECURSIVE RStrip(_)
RStrip(s) ==
    IF s = <<>> THEN s
    ELSE IF IsSpace(s[Len(s)]) THEN RStrip(SubSeq(s, 1, Len(s) - 1)) ELSE s

\* str.strip()
Strip(s) == RStrip(LStrip(s))

\* sep.join(blocks)
RECURSIVE Join(_, _)
Join(sep, blocks) ==
    IF blocks = <<>> THEN <<>>
    ELSE IF Len(blocks) = 1 THEN blocks[1]
    ELSE blocks[1] \o sep \o Join(sep, Tail(blocks))

\* str.split("\n"): always at least one line
RECURSIVE SplitLines(_)
SplitLines(s) ==
    IF \A i \in 1..Len(s) : s[i] # NL THEN <<s>>
    ELSE LET i == CHOOSE k \in 1..Len(s) : s[k] = NL /\ \A j \in 1..(k - 1) : s[j] # NL
         IN  <<SubSeq(s, 1, i - 1)>> \o SplitLines(SubSeq(s, i + 1, Len(s)))

RECURSIVE LStripBlanks(_)
LStripBlanks(line) ==
    IF line = <<>> THEN line
    ELSE IF Head(line) = SP THEN LStripBlanks(Tail(line)) ELSE line

Indent(line) == Len(line) - Len(LStripBlanks(line))

Min(S) == CHOOSE m \in S : \A n \in S : m <= n

\* F applied to the value of v, v being evaluated once
With(v, F(_)) == CHOOSE y \in {F(x) : x \in {v}} : TRUE

RECURSIVE DropTrailingEmpty(_)
DropTrailingEmpty(lines) ==
    IF lines # <<>> /\ lines[Len(lines)] = <<>>
    THEN DropTrailingEmpty(SubSeq(lines, 1, Len(lines) - 1))
    ELSE lines

RECURSIVE DropLeadingEmpty(_)
DropLeadingEmpty(lines) ==
    IF lines # <<>> /\ Head(lines) = <<>> THEN DropLeadingEmpty(Tail(lines)) ELSE lines

\* inspect.cleandoc
CleanDoc(s) ==
    LET lines == SplitLines(s)
        indents == {Indent(lines[i]) : i \in {k \in 2..Len(lines) : LStripBlanks(lines[k]) # <<>>}}
        dedented == [i \in 1..Len(lines) |->
                        IF i = 1 THEN LStripBlanks(lines[1])
                        ELSE IF indents = {} THEN lines[i]
                        ELSE SubSeq(lines[i], Min(indents) + 1, Len(lines[i]))]
    IN  Join(<<NL>>, DropLeadingEmpty(DropTrailingEmpty(dedented)))

\* _reference_regex.findall(text): the groups of the non-overlapping matches of
\* FENCE bibtex ([^FENCE]*) FENCE found scanning from the left: a fence is the
\* only token holding a backtick
RECURSIVE FindAll(_)
FindAll(s) ==
    IF Len(s) < 3 THEN <<>>
    ELSE IF s[1] = FENCE /\ s[2] = "bibtex" /\ \E j \in 3..Len(s) : s[j] = FENCE
    THEN LET j == CHOOSE k \in 3..Len(s) : s[k] = FENCE /\ \A m \in 3..(k - 1) : s[m] # FENCE
         IN  <<SubSeq(s, 3, j - 1)>> \o FindAll(SubSeq(s, j + 1, Len(s)))
    ELSE FindAll(Tail(s))

(***************************************************************************)
(* Values.  Every Python value is a record with a `type` field.            *)
(***************************************************************************)
None == [type |-> "NoneType"]
Float(v) == [type |-> "float", v |-> v]
\* a traced JAX value (jax.core.Tracer)
Tracer == [type |-> "Tracer"]

\* the leaves jtu.tree_leaves finds in a pytree; None has no leaves
Leaves(x) == IF "leaves" \in DOMAIN x THEN x.leaves ELSE <<>>

ODETerm == [type |-> "ODETerm"]
ControlTerm == [type |-> "ControlTerm"]
BrownianPath(cls, levy_area) == [type |-> cls, levy_area |-> levy_area]
Terms(leaves) == [type |-> "MultiTerm", leaves |-> leaves]

BrownianClasses == {"VirtualBrownianTree", "UnsafeBrownianPath"}
ImplicitSolvers == {"Kvaerno3", "Kvaerno4", "Kvaerno5"}
SRKSolvers == {"ShARK", "SRA1", "SlowRK", "GeneralShARK", "SPaRK", "SEA"}
ItoSolvers == {"ItoMilstein"}
StratonovichSolvers == {"ReversibleHeun", "StratonovichMilstein"}
\* the solver classes _solvers cites by their own single reference
SingleReferenceSolvers ==
    {"Tsit5", "Kvaerno3", "Kvaerno4", "Kvaerno5", "ReversibleHeun", "LeapfrogMidpoint",
     "ShARK", "SRA1", "SlowRK", "GeneralShARK", "SPaRK", "SEA"}

is_sde(terms) == \E i \in 1..Len(Leaves(terms)) : Leaves(terms)[i].type \in BrownianClasses
is_cde(terms) == \E i \in 1..Len(Leaves(terms)) : Leaves(terms)[i].type = "ControlTerm"

SubSaveAt(ts) == [type |-> "SubSaveAt", ts |-> ts]
SaveAt(dense, ts) == [type |-> "SaveAt", dense |-> dense, leaves |-> <<SubSaveAt(ts)>>]
PIDController(p, d) == [type |-> "PIDController", pcoeff |-> p, dcoeff |-> d]
BacksolveAdjoint(leaves) == [type |-> "BacksolveAdjoint", leaves |-> leaves]
Solver(cls) == [type |-> cls]

\* x == 0 on a coefficient: a bool, or a tracer when x is traced
EqZero(x) == IF x.type = "Tracer" THEN Tracer ELSE [type |-> "bool", v |-> (x.v = 0)]

(***************************************************************************)
(* Documented objects and their documentation.                             *)
(***************************************************************************)
\* the objects the rules look references up for: three classes, one function, and
\* solver instances (named by their class: lru_cache keys an instance by its hash
\* and equality, which for these solvers is its class and fields)
Objs == {"VirtualBrownianTree", "Dopri5", "Dopri8", "adjoint_rms_seminorm",
         "Tsit5", "Kvaerno5", "ShARK"}

\* the blocks the rules unpack from each object's documentation
Expected(o) == IF o \in {"VirtualBrownianTree", "Dopri5", "Dopri8"} THEN 2 ELSE 1

\* first line of the k-th reference of o
RefLine(o, k) ==
    CASE o = "Dopri5" /\ k = 1 -> <<"Dormand", SP, "Prince">>
      [] o = "Dopri5" /\ k = 2 -> <<"Shampine">>
      [] o = "Dopri8" /\ k = 1 -> <<"Dormand", SP, "Prince">>
      [] o = "Dopri8" /\ k = 2 -> <<"Bogacki", SP, "Shampine">>
      [] OTHER -> <<o>>

\* the k-th reference as written in a docstring: indented, the second line deeper,
\* the closing fence on an indented line of its own
RawBlock(o, k) ==
    <<NL, SP, SP>> \o RefLine(o, k) \o <<NL, SP, SP, SP>> \o Rep("#", k) \o <<NL, SP, SP>>

\* a docstring with n reference blocks after some prose and a code example
MkDoc(o, n) ==
    <<"prose", NL, FENCE, "python", NL, "code", NL, FENCE, NL>>
    \o Concat([k \in 1..n |-> <<SP, SP, FENCE, "bibtex">> \o RawBlock(o, k) \o <<FENCE, NL>>])

\* the documentation the model starts from: every object documented as the rules
\* expect, but for at most one object, which holds any number of blocks
DocConfigs ==
    LET good == [o \in Objs |-> Expected(o)]
        counts == {good} \cup {[good EXCEPT ![o] = n] : o \in Objs, n \in 0..MaxBlocks}
    IN  {[o \in Objs |-> MkDoc(o, c[o])] : c \in counts}

(***************************************************************************)
(* The reference store.  `st` is the part of the state a rule can change:  *)
(* [ref, multi, made, scanned].                                            *)
(***************************************************************************)
Ok(v) == [kind |-> "return", value |-> v]
Raise(exc) == [kind |-> "raise", exc |-> exc]

\* one run of a body: which function scanned which object's documentation
Scan(fn, o) == [fn |-> fn, obj |-> o]

\* a variant body that takes the first block when there are several (told apart by C7)
ParseReferenceBodyFirst(d) ==
    LET references == FindAll(d)
    IN  IF Len(references) >= 1 THEN Ok(CleanDoc(references[1])) ELSE Raise("ValueError")

\* body of _parse_reference: exactly one block, else the unpacking fails
ParseReferenceBody(d) ==
    LET references == FindAll(d)
        cleaned == [i \in 1..Len(references) |-> CleanDoc(references[i])]
    IN  IF Len(cleaned) = 1 THEN Ok(cleaned[1]) ELSE Raise("ValueError")

\* a variant body that stops after the first block (told apart by C9)
ParseReferenceMultiBodyFirstOnly(d) ==
    LET references == FindAll(d)
    IN  [i \in 1..(IF Len(references) = 0 THEN 0 ELSE 1) |-> CleanDoc(references[i])]

\* body of _parse_reference_multi
ParseReferenceMultiBody(d) ==
    LET references == FindAll(d)
    IN  [i \in 1..Len(references) |-> CleanDoc(references[i])]

\* _parse_reference(obj) through its lru_cache: a hit returns the stored text; a miss
\* runs the body and stores what it returns (an exception is not stored)
ParseReference(st, o) ==
    IF o \in DOMAIN st.ref THEN [r |-> Ok(st.ref[o]), st |-> st]
    ELSE With(ParseReferenceBody(doc[o]), LAMBDA r :
            IF r.kind = "return"
            THEN [r |-> r, st |-> [st EXCEPT !.scanned = Append(@, Scan("_parse_reference", o)),
                                            !.ref = (o :> r.value) @@ @]]
            ELSE [r |-> r, st |-> [st EXCEPT !.scanned = Append(@, Scan("_parse_reference", o))]])

\* a variant without the cache: every call builds a new list (told apart by C8)
ParseReferenceMultiUncached(st, o) ==
    With([obj |-> o, gen |-> st.made[o] + 1, refs |-> ParseReferenceMultiBody(doc[o])],
         LAMBDA list :
             [r |-> Ok(list),
              st |-> [st EXCEPT !.scanned = Append(@, Scan("_parse_reference_multi", o)),
                                !.made[o] = @ + 1,
                                !.multi = [n \in DOMAIN @ \cup {o} |->
                                              IF n = o THEN list ELSE @[n]]]])

\* _parse_reference_multi(obj) through its lru_cache; the value is a list object,
\* identified by the object it was built for and its number among those
ParseReferenceMulti(st, o) ==
    IF o \in DOMAIN st.multi THEN [r |-> Ok(st.multi[o]), st |-> st]
    ELSE With([obj |-> o, gen |-> st.made[o] + 1, refs |-> ParseReferenceMultiBody(doc[o])],
              LAMBDA list :
                  [r |-> Ok(list),
                   st |-> [st EXCEPT !.scanned = Append(@, Scan("_parse_reference_multi", o)),
                                     !.made[o] = @ + 1,
                                     !.multi = (o :> list) @@ @]])

(***************************************************************************)
(* The citation rules.  A rule takes its keyword arguments `kw` and the    *)
(* store `st`; it yields [r, st]: r is Ok(None), Ok(Str(text)) or Raise.   *)
(***************************************************************************)
Str(text) == [type |-> "str", s |-> text]

\* the value of a parameter: the argument passed, else the parameter's default
Arg(kw, name, default) == IF name \in DOMAIN kw THEN kw[name] ELSE default

\* a raw literal: a line break, comment and citation lines, a line break
Lit(words) == <<NL>> \o Join(<<NL>>, [i \in 1..Len(words) |-> <<words[i]>>]) \o <<NL>>

_thesis_cite == Strip(Lit(<<"phdthesis{kidger2021on,", "}">>))
_start == Strip(Lit(<<"%AUTOGENERATED-REFERENCES", "%found", "%open-an-issue">>))
_end == Strip(Lit(<<"%END-AUTOGENERATED-REFERENCES">>))

Returns(st, text) == [r |-> Ok(Str(text)), st |-> st]
ReturnsNone(st) == [r |-> Ok(None), st |-> st]
Raises(st, exc) == [r |-> Raise(exc), st |-> st]

_diffrax(kw, st) ==
    Returns(st, Lit(<<"%Diffrax">>) \o _thesis_cite
                \o <<NL>> \o Lit(<<"%Equinox", "@article{kidger2021equinox}">>)
                \o Lit(<<"%JAX", "@software{jax2018github,">>)
                \o <<"jax.__version__">> \o Lit(<<"}">>))

_backsolve_adjoint(kw, st) ==
    LET adjoint == kw.adjoint
        terms == Arg(kw, "terms", None)
    IN  IF adjoint.type = "BacksolveAdjoint"
        THEN IF is_sde(terms)
             THEN With(ParseReferenceMulti(st, "VirtualBrownianTree"), LAMBDA p :
                      IF Len(p.r.value.refs) # 2 THEN Raises(p.st, "ValueError")
                      ELSE Returns(p.st, <<NL, SP, "%backsolve-SDE", NL, SP>>
                                         \o p.r.value.refs[1]
                                         \o <<NL, SP, "%refined", NL, SP>> \o _thesis_cite))
             ELSE IF is_cde(terms)
             THEN Returns(st, <<NL, SP, "%backsolve-CDE", NL, SP>> \o _thesis_cite)
             ELSE Returns(st, Lit(<<"%backsolve-ODE", "@article{chen2018neuralode}", "%proof">>)
                              \o _thesis_cite)
        ELSE ReturnsNone(st)

_discrete_adjoint(kw, st) ==
    LET adjoint == kw.adjoint
        pieces == <<Lit(<<"%discretise-then-optimise">>),
                    Lit(<<"%eg", "@inproceedings{ma2021comparison}">>)>>
                  \o (IF adjoint.type = "RecursiveCheckpointAdjoint"
                      THEN <<Lit(<<"%checkpointing", "@article{stumm2010new}">>)
                             \o Lit(<<"%binomial", "@article{griewank1992achieving}">>)>>
                      ELSE <<>>)
    IN  IF adjoint.type \in {"RecursiveCheckpointAdjoint", "DirectAdjoint"}
        THEN Returns(st, Join(<<NL>>, [i \in 1..Len(pieces) |-> Strip(pieces[i])]))
        ELSE ReturnsNone(st)

_virtual_brownian_tree(kw, st) ==
    LET leaves == Leaves(kw.terms)
    IN  IF \E i \in 1..Len(leaves) : leaves[i].type = "VirtualBrownianTree"
        THEN With(ParseReferenceMulti(st, "VirtualBrownianTree"), LAMBDA p :
                 IF Len(p.r.value.refs) # 2 THEN Raises(p.st, "ValueError")
                 ELSE Returns(p.st, Lit(<<"%VirtualBrownianTree">>) \o p.r.value.refs[1]))
        ELSE ReturnsNone(st)

_space_time_levy_area(kw, st) ==
    LET leaves == Leaves(kw.terms)
    IN  IF \E i \in 1..Len(leaves) :
               leaves[i].type \in BrownianClasses /\ leaves[i].levy_area # ""
        THEN With(ParseReferenceMulti(st, "VirtualBrownianTree"), LAMBDA p :
                 IF Len(p.r.value.refs) # 2 THEN Raises(p.st, "ValueError")
                 ELSE Returns(p.st, Lit(<<"%space-time-Levy-area">>) \o p.r.value.refs[2]))
        ELSE ReturnsNone(st)

_backsolve_rms_norm(kw, st) ==
    LET adjoint == kw.adjoint
    IN  IF adjoint.type = "BacksolveAdjoint"
           /\ \E i \in 1..Len(Leaves(adjoint)) : Leaves(adjoint)[i] = "adjoint_rms_seminorm"
        THEN With(ParseReference(st, "adjoint_rms_seminorm"), LAMBDA p :
                 IF p.r.kind = "raise" THEN [r |-> p.r, st |-> p.st]
                 ELSE Returns(p.st, Lit(<<"%seminorms">>) \o p.r.value))
        ELSE ReturnsNone(st)

_explicit_solver(kw, st) ==
    LET solver == kw.solver
        terms == Arg(kw, "terms", None)
    IN  IF solver.type \notin (ImplicitSolvers \cup SRKSolvers \cup ItoSolvers
                                   \cup StratonovichSolvers)
           /\ ~is_sde(terms)
        THEN Returns(st, Lit(<<"%explicit-solver", "@book{hairer2008solving-i}">>))
        ELSE ReturnsNone(st)

_implicit_solver(kw, st) ==
    LET solver == kw.solver
        terms == Arg(kw, "terms", None)
    IN  IF solver.type \in ImplicitSolvers /\ ~is_sde(terms)
        THEN Returns(st, Lit(<<"%implicit-solver", "@book{hairer2002solving-ii}">>))
        ELSE ReturnsNone(st)

_symplectic_solver(kw, st) ==
    LET solver == kw.solver
        terms == Arg(kw, "terms", None)
    IN  IF solver.type = "SemiImplicitEuler" /\ ~is_sde(terms)
        THEN Returns(st, Lit(<<"symplectic-solver", "@book{hairer2013geometric}">>) \o <<NL>>)
        ELSE ReturnsNone(st)

_cde(kw, st) ==
    IF is_cde(kw.terms)
    THEN Returns(st, Lit(<<"%neural-CDE", "@incollection{kidger2020neuralcde}">>))
    ELSE ReturnsNone(st)

_sde(kw, st) ==
    IF is_sde(kw.terms)
    THEN Returns(st, Lit(<<"%SDE", "@book{kloeden2011numerical}">>))
    ELSE ReturnsNone(st)

\* truth of the generator expression (subsaveat.ts is not None for subsaveat in ...):
\* a generator object is true whatever it would yield
GeneratorTruth(saveat) == TRUE

_solvers(kw, st) ==
    LET solver == kw.solver
        saveat == Arg(kw, "saveat", None)
    IN  IF solver.type \in SingleReferenceSolvers
        THEN With(ParseReference(st, solver.type), LAMBDA p :
                 IF p.r.kind = "raise" THEN [r |-> p.r, st |-> p.st]
                 ELSE Returns(p.st, <<NL, "%You-are-using-the", SP, solver.type, SP,
                                      "solver", NL>> \o p.r.value))
        ELSE IF solver.type = "Dopri5"
        THEN With(ParseReferenceMulti(st, "Dopri5"), LAMBDA p :
                 IF Len(p.r.value.refs) # 2 THEN Raises(p.st, "ValueError")
                 ELSE LET ref1 == p.r.value.refs[1]
                          ref2 == p.r.value.refs[2]
                      IN  IF ~(Contains(ref1, "Dormand") /\ Contains(ref1, "Prince")
                               /\ Contains(ref2, "Shampine"))
                          THEN Raises(p.st, "AssertionError")
                          ELSE Returns(p.st, Lit(<<"%Dormand-Prince-5(4)">>) \o ref1
                                             \o Lit(<<"%interpolation">>) \o ref2))
        ELSE IF solver.type = "Dopri8"
        THEN With(ParseReferenceMulti(st, "Dopri8"), LAMBDA p :
                 IF Len(p.r.value.refs) # 2 THEN Raises(p.st, "ValueError")
                 ELSE LET ref1 == p.r.value.refs[1]
                          ref2 == p.r.value.refs[2]
                          msg == Lit(<<"%Dormand-Prince-8(7)">>) \o ref1
                      IN  IF ~(Contains(ref1, "Dormand") /\ Contains(ref1, "Prince")
                               /\ Contains(ref2, "Bogacki") /\ Contains(ref2, "Shampine"))
                          THEN Raises(p.st, "AssertionError")
                          ELSE IF saveat # None /\ (saveat.dense \/ GeneratorTruth(saveat))
                          THEN Returns(p.st, msg \o Lit(<<"%interpolation">>) \o ref2)
                          ELSE Returns(p.st, msg))
        ELSE ReturnsNone(st)

_auto_dt0(kw, st) ==
    IF kw.dt0 = None
    THEN Returns(st, Lit(<<"%initial-step-size", "@book{hairer2008solving-i}">>))
    ELSE ReturnsNone(st)

\* _no_tracer(x, name) raises on a traced value
_no_tracer(x) == x.type = "Tracer"

_pid_controller(kw, st) ==
    LET stepsize_controller == kw.stepsize_controller
        terms == Arg(kw, "terms", None)
    IN  IF stepsize_controller.type = "PIDController"
        THEN IF is_sde(terms)
             THEN Returns(st, Lit(<<"%PID-SDE", "@article{burrage2004adaptive}",
                                    "@article{ilie2015adaptive}">>))
             ELSE LET no_p == EqZero(stepsize_controller.pcoeff)
                      no_d == EqZero(stepsize_controller.dcoeff)
                  IN  IF _no_tracer(no_p) \/ _no_tracer(no_d) THEN Raises(st, "RuntimeError")
                      ELSE IF no_d.v
                      THEN IF no_p.v
                           THEN Returns(st, Lit(<<"%I-controller",
                                                  "@book{hairer2008solving-i}">>))
                           ELSE Returns(st, Lit(<<"%PI-controller",
                                                  "@book{hairer2002solving-ii}", "%and",
                                                  "@article{soderlind2002automatic}">>))
                      ELSE Returns(st, Lit(<<"%PID-controller",
                                             "@article{soderlind2003digital}">>))
        ELSE ReturnsNone(st)

(***************************************************************************)
(* Rules a caller may append to the registry besides the ones above        *)
(* (`citation_rules` is a plain list of Callable[..., Optional[str]]).     *)
(***************************************************************************)
\* bool(x) of a value
Truthy(x) == CASE x.type = "NoneType" -> FALSE
               [] x.type = "float" -> x.v # 0
               [] OTHER -> TRUE

\* def R1(terms): return "alpha"
R1(kw, st) == Returns(st, <<"alpha">>)

\* def R2(solver, dt0=None): return "beta-" + str(dt0 or "default")
R2(kw, st) ==
    LET dt0 == Arg(kw, "dt0", None)
    IN  Returns(st, <<"beta-", IF Truthy(dt0) THEN ToString(dt0.v) ELSE "default">>)

\* def _extra(solver, **kwargs): return the sorted names it was given
_extra(kw, st) == Returns(st, Lit(<<"%extra">>))

\* def _empty(): return ""
_empty(kw, st) == Returns(st, <<>>)

\* calling a rule
RuleBody(name, kw, st) ==
    CASE name = "_diffrax" -> _diffrax(kw, st)
      [] name = "_backsolve_adjoint" -> _backsolve_adjoint(kw, st)
      [] name = "_discrete_adjoint" -> _discrete_adjoint(kw, st)
      [] name = "_virtual_brownian_tree" -> _virtual_brownian_tree(kw, st)
      [] name = "_space_time_levy_area" -> _space_time_levy_area(kw, st)
      [] name = "_backsolve_rms_norm" -> _backsolve_rms_norm(kw, st)
      [] name = "_explicit_solver" -> _explicit_solver(kw, st)
      [] name = "_implicit_solver" -> _implicit_solver(kw, st)
      [] name = "_symplectic_solver" -> _symplectic_solver(kw, st)
      [] name = "_cde" -> _cde(kw, st)
      [] name = "_sde" -> _sde(kw, st)
      [] name = "_solvers" -> _solvers(kw, st)
      [] name = "_auto_dt0" -> _auto_dt0(kw, st)
      [] name = "_pid_controller" -> _pid_controller(kw, st)
      [] name = "R1" -> R1(kw, st)
      [] name = "R2" -> R2(kw, st)
      [] name = "_extra" -> _extra(kw, st)
      [] name = "_empty" -> _empty(kw, st)

(***************************************************************************)
(* Signatures (inspect.signature).                                         *)
(***************************************************************************)
\* a parameter without a default (inspect.Parameter.empty)
Req(name) == [name |-> name, kind |-> "POSITIONAL_OR_KEYWORD", default |-> "empty"]
\* a parameter with one
Opt(name) == [name |-> name, kind |-> "POSITIONAL_OR_KEYWORD", default |-> "None"]
KwOnly(name) == [name |-> name, kind |-> "KEYWORD_ONLY", default |-> "given"]
VarKw(name) == [name |-> name, kind |-> "VAR_KEYWORD", default |-> "empty"]

Rule(name, params) == [name |-> name, params |-> params]

\* the registry after the module is imported: the @citation_rules.append decorators
BuiltinRules ==
    <<Rule("_diffrax", <<>>),
      Rule("_backsolve_adjoint", <<Req("adjoint"), Opt("terms")>>),
      Rule("_discrete_adjoint", <<Req("adjoint")>>),
      Rule("_virtual_brownian_tree", <<Req("terms")>>),
      Rule("_space_time_levy_area", <<Req("terms")>>),
      Rule("_backsolve_rms_norm", <<Req("adjoint")>>),
      Rule("_explicit_solver", <<Req("solver"), Opt("terms")>>),
      Rule("_implicit_solver", <<Req("solver"), Opt("terms")>>),
      Rule("_symplectic_solver", <<Req("solver"), Opt("terms")>>),
      Rule("_cde", <<Req("terms")>>),
      Rule("_sde", <<Req("terms")>>),
      Rule("_solvers", <<Req("solver"), Opt("saveat")>>),
      Rule("_auto_dt0", <<Req("dt0")>>),
      Rule("_pid_controller", <<Req("stepsize_controller"), Opt("terms")>>)>>

ScenarioRules == <<Rule("R1", <<Req("terms")>>), Rule("R2", <<Req("solver"), Opt("dt0")>>)>>
ExtraRules == <<Rule("_extra", <<Req("solver"), VarKw("kwargs")>>), Rule("_empty", <<>>)>>

\* the registries the model starts from
Registries == {BuiltinRules, BuiltinRules \o ExtraRules, ScenarioRules}

\* inspect.signature(diffeqsolve)
_diffeqsignature ==
    <<Req("terms"), Req("solver"), Req("t0"), Req("t1"), Req("dt0"), Req("y0"), Opt("args"),
      KwOnly("saveat"), KwOnly("stepsize_controller"), KwOnly("adjoint"),
      KwOnly("max_steps")>>

ParamNames(sig) == {sig[i].name : i \in 1..Len(sig)}

\* a variant binder in which a name given both ways is bound to the named value
\* (told apart by C5)
BindPartialLaterWins(sig, args, kw) ==
    LET TooMany(i) == i > Len(sig) \/ sig[i].kind \in {"KEYWORD_ONLY", "VAR_KEYWORD"}
    IN  IF \E i \in 1..Len(args) : TooMany(i)
        THEN [kind |-> "raise", exc |-> "TypeError", msg |-> "too many positional arguments"]
        ELSE IF ~(DOMAIN kw \subseteq ParamNames(sig))
        THEN [kind |-> "raise", exc |-> "TypeError",
              msg |-> "got an unexpected keyword argument"]
        ELSE [kind |-> "return",
              arguments |-> [n \in {sig[i].name : i \in 1..Len(args)} \cup DOMAIN kw |->
                                IF n \in DOMAIN kw THEN kw[n]
                                ELSE args[CHOOSE i \in 1..Len(args) : sig[i].name = n]]]

\* Signature.bind_partial(*args, **kwargs): the arguments mapping, or TypeError.
\* The positional values are taken in order, each failing if no positional
\* parameter is left for it or if its parameter is also given by name; then a
\* name left over that the signature does not hold fails.
BindPartial(sig, args, kw) ==
    LET TooMany(i) == i > Len(sig) \/ sig[i].kind \in {"KEYWORD_ONLY", "VAR_KEYWORD"}
        Twice(i) == ~TooMany(i) /\ sig[i].name \in DOMAIN kw
        failing == {i \in 1..Len(args) : TooMany(i) \/ Twice(i)}
    IN  IF failing # {}
        THEN [kind |-> "raise", exc |-> "TypeError",
              msg |-> IF TooMany(Min(failing)) THEN "too many positional arguments"
                      ELSE "multiple values for argument"]
        ELSE IF ~(DOMAIN kw \subseteq ParamNames(sig))
        THEN [kind |-> "raise", exc |-> "TypeError",
              msg |-> "got an unexpected keyword argument"]
        ELSE [kind |-> "return",
              arguments |-> [n \in {sig[i].name : i \in 1..Len(args)} \cup DOMAIN kw |->
                                IF n \in DOMAIN kw THEN kw[n]
                                ELSE args[CHOOSE i \in 1..Len(args) : sig[i].name = n]]]

\* BoundArguments.args: the values of the leading positional parameters that are bound
RECURSIVE BoundArgsFrom(_, _, _)
BoundArgsFrom(sig, arguments, i) ==
    IF i > Len(sig) \/ sig[i].kind \in {"KEYWORD_ONLY", "VAR_KEYWORD"}
       \/ sig[i].name \notin DOMAIN arguments
    THEN <<>>
    ELSE <<arguments[sig[i].name]>> \o BoundArgsFrom(sig, arguments, i + 1)

BoundArgs(sig, arguments) == BoundArgsFrom(sig, arguments, 1)

\* BoundArguments.kwargs: every bound parameter after those
BoundKwargs(sig, arguments) ==
    LET npos == Len(BoundArgs(sig, arguments))
    IN  [n \in {sig[i].name : i \in (npos + 1)..Len(sig)} \cap DOMAIN arguments |->
            arguments[n]]

\* a variant without the loop over bound.args (told apart by C4)
CanonicalMapKwargsOnly(sig, arguments) == BoundKwargs(sig, arguments)

\* kwargs = dict(bound.kwargs); then kwargs[arg_name] = arg_value over
\* zip(_diffeqsignature.parameters.keys(), bound.args)
CanonicalMap(sig, arguments) ==
    LET bargs == BoundArgs(sig, arguments)
        bkw == BoundKwargs(sig, arguments)
        zipped == 1..(IF Len(sig) < Len(bargs) THEN Len(sig) ELSE Len(bargs))
    IN  [n \in DOMAIN bkw \cup {sig[i].name : i \in zipped} |->
            IF \E i \in zipped : sig[i].name = n
            THEN bargs[CHOOSE i \in zipped : sig[i].name = n]
            ELSE bkw[n]]

(***************************************************************************)
(* The dispatcher: the loop over citation_rules in `citation`.             *)
(***************************************************************************)
needed_keys(rule) ==
    {rule.params[i].name : i \in {k \in 1..Len(rule.params) :
        rule.params[k].kind # "VAR_KEYWORD" /\ rule.params[k].default = "empty"}}

has_var(rule) == \E i \in 1..Len(rule.params) : rule.params[i].kind = "VAR_KEYWORD"

\* the assert on each parameter's kind
KindsOk(rule) ==
    \A i \in 1..Len(rule.params) :
        rule.params[i].kind \in {"VAR_KEYWORD", "POSITIONAL_OR_KEYWORD"}

\* a variant admission test that also wants the optional names (told apart by C1)
AdmittedWithOptional(rule, km) == ParamNames(rule.params) \subseteq DOMAIN km

Admitted(rule, km) == needed_keys(rule) \subseteq DOMAIN km

\* a variant that passes an admitted rule its required names only (told apart by C3)
rulekwargsRequiredOnly(rule, km) == [n \in needed_keys(rule) \cap DOMAIN km |-> km[n]]

rulekwargs(rule, km) ==
    IF has_var(rule) THEN km
    ELSE [n \in ParamNames(rule.params) \cap DOMAIN km |-> km[n]]

\* a variant that keeps only text that is not empty (told apart by C10)
CollectedNonEmpty(cite) == cite # None /\ cite.s # <<>>

\* whether the dispatcher keeps what a rule returned
Collected(cite) == cite # None

\* the loop from rule number i on; acc is [cites, invoked, st]
RECURSIVE Dispatch(_, _, _, _)
Dispatch(rules, km, i, acc) ==
    IF i > Len(rules) THEN [kind |-> "return", acc |-> acc]
    ELSE IF ~KindsOk(rules[i])
    THEN [kind |-> "raise", exc |-> "AssertionError", acc |-> acc]
    ELSE IF ~Admitted(rules[i], km)
    THEN Dispatch(rules, km, i + 1, acc)
    ELSE With(rulekwargs(rules[i], km), LAMBDA rkw :
         With(RuleBody(rules[i].name, rkw, acc.st), LAMBDA out :
         With([acc EXCEPT !.st = out.st,
                          !.invoked = Append(@, [rule |-> i, kw |-> rkw])], LAMBDA acc1 :
            IF out.r.kind = "raise"
            THEN [kind |-> "raise", exc |-> out.r.exc, acc |-> acc1]
            ELSE IF Collected(out.r.value)
            THEN With([acc1 EXCEPT !.cites = Append(@, Strip(out.r.value.s))],
                      LAMBDA acc2 : Dispatch(rules, km, i + 1, acc2))
            ELSE Dispatch(rules, km, i + 1, acc1))))

\* a variant joining the blocks with a line break only (told apart by C2)
RenderSingleNewline(cites) == Join(<<NL>>, cites)

\* "\n\n".join(cites)
Render(cites) == Join(<<NL, NL>>, cites)

(***************************************************************************)
(* The calls the model makes.                                              *)
(***************************************************************************)
Array == [type |-> "Array"]
EmptyMap == <<>>

TermsVals ==
    {Terms(<<ODETerm>>),
     Terms(<<ControlTerm>>),
     Terms(<<ODETerm, ControlTerm, BrownianPath("VirtualBrownianTree", "")>>),
     Terms(<<ODETerm, ControlTerm, BrownianPath("UnsafeBrownianPath", "space-time")>>)}
SolverVals ==
    {Solver(c) : c \in {"Tsit5", "Dopri5", "Dopri8", "Kvaerno5", "SemiImplicitEuler", "ShARK"}}
Dt0Vals == {None, Float(9)}
SaveAtVals == {SaveAt(FALSE, None), SaveAt(TRUE, None), SaveAt(FALSE, Array)}
Coeffs == {Float(0), Float(1), Tracer}
ControllerVals ==
    {PIDController(p, d) : p \in Coeffs, d \in Coeffs} \cup {[type |-> "ConstantStepSize"]}
AdjointVals ==
    {[type |-> "RecursiveCheckpointAdjoint"], [type |-> "DirectAdjoint"],
     BacksolveAdjoint(<<>>), BacksolveAdjoint(<<"adjoint_rms_seminorm">>)}

\* the values a call may give a parameter
Values(name) ==
    CASE name = "terms" -> TermsVals
      [] name = "solver" -> SolverVals
      [] name = "dt0" -> Dt0Vals
      [] name = "saveat" -> SaveAtVals
      [] name = "stepsize_controller" -> ControllerVals
      [] name = "adjoint" -> AdjointVals
      [] OTHER -> {Float(0), Float(1)}

\* the parameters some rule reads
RuleNames == {"terms", "solver", "dt0", "saveat", "stepsize_controller", "adjoint"}

\* calls by name only: up to MaxSupplied of the parameters the rules read, any values
RECURSIVE MapsUpTo(_)
MapsUpTo(k) ==
    IF k = 0 THEN {EmptyMap}
    ELSE LET smaller == MapsUpTo(k - 1)
         IN  smaller \cup UNION {{(n :> v) @@ m : v \in Values(n)} :
                                    <<m, n>> \in {<<m1, n1>> \in smaller \X RuleNames :
                                                     n1 \notin DOMAIN m1}}

NamedCalls == MapsUpTo(MaxSupplied)

\* one value per parameter for the calls that exercise the binder: given by position,
\* and a different one given by name
PosVal(name) ==
    CASE name = "terms" -> Terms(<<ODETerm>>)
      [] name = "solver" -> Solver("Tsit5")
      [] name = "dt0" -> None
      [] OTHER -> Float(0)
NamedVal(name) ==
    CASE name = "terms" -> Terms(<<ControlTerm>>)
      [] name = "solver" -> Solver("Kvaerno5")
      [] name = "dt0" -> Float(9)
      [] name = "saveat" -> SaveAt(TRUE, None)
      [] name = "stepsize_controller" -> PIDController(Float(0), Float(0))
      [] name = "adjoint" -> [type |-> "DirectAdjoint"]
      [] OTHER -> Float(1)

NumPositional ==
    Cardinality({i \in 1..Len(_diffeqsignature) :
                    _diffeqsignature[i].kind = "POSITIONAL_OR_KEYWORD"})

\* calls with 0 .. one-too-many positional values and at most one named value, the
\* name being any parameter of diffeqsolve or one it does not have
PositionalCalls ==
    {[args |-> [i \in 1..n |-> IF i <= Len(_diffeqsignature)
                                THEN PosVal(_diffeqsignature[i].name) ELSE Float(0)],
      kw |-> [m \in S |-> NamedVal(m)]] :
        n \in 0..(NumPositional + 1),
        S \in {T \in SUBSET (ParamNames(_diffeqsignature) \cup {"bogus"}) :
                  Cardinality(T) <= 1}}

(***************************************************************************)
(* State and operations.                                                   *)
(***************************************************************************)
Idle == [op |-> "idle"]
NoResult == [kind |-> "none"]
NoPrev == [kind |-> "none"]

Threads == {"t1", "t2"}
ThreadIdle == [pc |-> "idle", calls |-> 0, fn |-> "", obj |-> "", ret |-> NoResult]

GoodDoc == [o \in Objs |-> MkDoc(o, Expected(o))]

ColdStore == [ref |-> EmptyMap, multi |-> EmptyMap, made |-> [o \in Objs |-> 0],
              scanned |-> <<>>]

\* the objects each function of the store is called for by the rules
SingleObjs == <<"adjoint_rms_seminorm", "Tsit5", "Kvaerno5", "ShARK">>
MultiObjs == <<"VirtualBrownianTree", "Dopri5", "Dopri8">>

\* the store after every one of these objects has been looked up once
RECURSIVE LookUpAll(_, _, _)
LookUpAll(st, singles, multis) ==
    IF singles # <<>>
    THEN With(ParseReference(st, Head(singles)).st,
              LAMBDA st1 : LookUpAll(st1, Tail(singles), multis))
    ELSE IF multis # <<>>
    THEN With(ParseReferenceMulti(st, Head(multis)).st,
              LAMBDA st1 : LookUpAll(st1, singles, Tail(multis)))
    ELSE st

\* The registry is one of Registries and the documentation one of DocConfigs (an
\* extended registry comes with the documentation as expected).  The caches are
\* empty, as when the module has just been imported, or hold every reference the
\* rules use, as after earlier calls have looked each one up.
Init ==
    /\ citation_rules \in Registries
    /\ doc \in DocConfigs
    /\ citation_rules = BuiltinRules \/ doc = GoodDoc
    /\ \E warm \in BOOLEAN :
          LET st == IF warm THEN LookUpAll(ColdStore, SingleObjs, MultiObjs) ELSE ColdStore
          IN  /\ cache_ref = st.ref
              /\ cache_multi = st.multi
              /\ made = st.made
    /\ call = Idle
    /\ result = NoResult
    /\ printed = <<>>
    /\ invoked = <<>>
    /\ scanned = <<>>
    /\ kwargs = EmptyMap
    /\ prev = NoPrev
    /\ th = [t \in Threads |-> ThreadIdle]

Store == [ref |-> cache_ref, multi |-> cache_multi, made |-> made, scanned |-> <<>>]

\* a variant that prints what was collected even when a rule raised (told apart by C6)
PrintedEvenOnFailure(d) == <<Render(Append(d.acc.cites, _end))>>

\* what citation has written to stdout when it ends: the print is its last statement
Printed(d) ==
    IF d.kind = "return" THEN <<Render(Append(d.acc.cites, _end))>> ELSE <<>>

\* citation(*args, **kw), start to end: what it leaves behind
CitationOutcome(args, kw) ==
    With(BindPartial(_diffeqsignature, args, kw), LAMBDA bound :
        IF bound.kind = "raise"
        THEN [result |-> bound, kwargs |-> EmptyMap, printed |-> <<>>, invoked |-> <<>>,
              st |-> Store]
        ELSE With(CanonicalMap(_diffeqsignature, bound.arguments), LAMBDA km :
             With(Dispatch(citation_rules, km, 1,
                           [cites |-> <<_start>>, invoked |-> <<>>, st |-> Store]),
                  LAMBDA d :
                      [result |-> IF d.kind = "raise" THEN Raise(d.exc) ELSE Ok(None),
                       kwargs |-> km, printed |-> Printed(d), invoked |-> d.acc.invoked,
                       st |-> d.acc.st])))

RunCitation(args, kw) ==
    \E out \in {CitationOutcome(args, kw)} :
        /\ result' = out.result
        /\ kwargs' = out.kwargs
        /\ printed' = out.printed
        /\ invoked' = out.invoked
        /\ scanned' = out.st.scanned
        /\ cache_ref' = out.st.ref
        /\ cache_multi' = out.st.multi
        /\ made' = out.st.made

\* _parse_reference(o) called on its own
RunParseReference(o) ==
    \E p \in {ParseReference(Store, o)} :
        /\ result' = p.r
        /\ scanned' = p.st.scanned
        /\ cache_ref' = p.st.ref
        /\ UNCHANGED <<cache_multi, made, printed, invoked, kwargs>>

\* _parse_reference_multi(o) called on its own
RunParseReferenceMulti(o) ==
    \E p \in {ParseReferenceMulti(Store, o)} :
        /\ result' = p.r
        /\ scanned' = p.st.scanned
        /\ cache_multi' = p.st.multi
        /\ made' = p.st.made
        /\ UNCHANGED <<cache_ref, printed, invoked, kwargs>>

Run(c) ==
    CASE c.op = "citation" -> RunCitation(c.args, c.kw)
      [] c.op = "_parse_reference" -> RunParseReference(c.obj)
      [] c.op = "_parse_reference_multi" -> RunParseReferenceMulti(c.obj)

\* a call of citation by name
Citation ==
    /\ call = Idle
    /\ \E kw \in NamedCalls :
          /\ call' = [op |-> "citation", args |-> <<>>, kw |-> kw]
          /\ RunCitation(<<>>, kw)
    /\ prev' = NoPrev
    /\ UNCHANGED <<citation_rules, doc, th>>

\* a call of citation with positional arguments
CitationPositional ==
    /\ call = Idle
    /\ \E c \in PositionalCalls :
          /\ call' = [op |-> "citation", args |-> c.args, kw |-> c.kw]
          /\ RunCitation(c.args, c.kw)
    /\ prev' = NoPrev
    /\ UNCHANGED <<citation_rules, doc, th>>

CallParseReference ==
    /\ call = Idle
    /\ \E o \in Objs :
          /\ call' = [op |-> "_parse_reference", obj |-> o]
          /\ RunParseReference(o)
    /\ prev' = NoPrev
    /\ UNCHANGED <<citation_rules, doc, th>>

CallParseReferenceMulti ==
    /\ call = Idle
    /\ \E o \in Objs :
          /\ call' = [op |-> "_parse_reference_multi", obj |-> o]
          /\ RunParseReferenceMulti(o)
    /\ prev' = NoPrev
    /\ UNCHANGED <<citation_rules, doc, th>>

\* the caller makes the same call once more
Repeat ==
    /\ call # Idle
    /\ Run(call)
    /\ prev' = [kind |-> "outcome", result |-> result, printed |-> printed]
    /\ UNCHANGED <<citation_rules, doc, call, th>>

Next ==
    \/ Citation
    \/ CitationPositional
    \/ CallParseReference
    \/ CallParseReferenceMulti
    \/ Repeat

Spec == Init /\ [][Next]_vars

(***************************************************************************)
(* Threads calling the reference store at once.  A call through lru_cache  *)
(* looks the key up; on a miss it runs the body (Python code, during which *)
(* another thread may run) and then stores and returns the result.  No     *)
(* lock is held from the look-up to the store.                             *)
(***************************************************************************)
StoreFunctions == {"_parse_reference", "_parse_reference_multi"}
\* the objects the threads look up: a class documented with two references and a
\* solver documented with one
ThreadObjs == {"Dopri5", "Tsit5"}

\* thread t calls fn(o): the look-up.  A hit returns at once.
ThreadCall(t) ==
    /\ th[t].pc = "idle"
    /\ th[t].calls < MaxThreadCalls
    /\ \E fn \in StoreFunctions, o \in ThreadObjs :
          LET cache == IF fn = "_parse_reference" THEN cache_ref ELSE cache_multi
          IN  th' = [th EXCEPT ![t] =
                        IF o \in DOMAIN cache
                        THEN [pc |-> "idle", calls |-> @.calls + 1, fn |-> fn, obj |-> o,
                              ret |-> Ok(cache[o])]
                        ELSE [pc |-> "running", calls |-> @.calls + 1, fn |-> fn, obj |-> o,
                              ret |-> NoResult]]
    /\ UNCHANGED <<citation_rules, doc, cache_ref, cache_multi, made, call, result,
                   printed, invoked, scanned, kwargs, prev>>

\* thread t, after a miss, runs the body and stores what it returns
ThreadFinish(t) ==
    /\ th[t].pc = "running"
    /\ scanned' = Append(scanned, Scan(th[t].fn, th[t].obj))
    /\ IF th[t].fn = "_parse_reference"
       THEN \E r \in {ParseReferenceBody(doc[th[t].obj])} :
               /\ th' = [th EXCEPT ![t].pc = "idle", ![t].ret = r]
               /\ cache_ref' = IF r.kind = "return"
                               THEN [n \in DOMAIN cache_ref \cup {th[t].obj} |->
                                        IF n = th[t].obj THEN r.value ELSE cache_ref[n]]
                               ELSE cache_ref
               /\ UNCHANGED <<cache_multi, made>>
       ELSE \E list \in {[obj |-> th[t].obj, gen |-> made[th[t].obj] + 1,
                          refs |-> ParseReferenceMultiBody(doc[th[t].obj])]} :
               /\ th' = [th EXCEPT ![t].pc = "idle", ![t].ret = Ok(list)]
               /\ cache_multi' = [n \in DOMAIN cache_multi \cup {th[t].obj} |->
                                     IF n = th[t].obj THEN list ELSE cache_multi[n]]
               /\ made' = [made EXCEPT ![th[t].obj] = @ + 1]
               /\ UNCHANGED cache_ref
    /\ UNCHANGED <<citation_rules, doc, call, result, printed, invoked, kwargs, prev>>

InitThreads == Init /\ citation_rules = BuiltinRules

NextThreads == \E t \in Threads : ThreadCall(t) \/ ThreadFinish(t)

SpecThreads == InitThreads /\ [][NextThreads]_vars

(***************************************************************************)
(* What the specification expects of a call, stated from the call, the     *)
(* registry and the documentation, without the dispatcher's definitions.   *)
(***************************************************************************)
IsCitation == call # Idle /\ call.op = "citation"
BindingFailed == IsCitation /\ result.kind = "raise" /\ "msg" \in DOMAIN result
Bound == IsCitation /\ ~BindingFailed
Completed == IsCitation /\ result.kind = "return"
Repeated == prev.kind = "outcome"

\* the names a rule requires: its parameters without a default
RequiredNames(rule) ==
    {p.name : p \in {q \in {rule.params[i] : i \in DOMAIN rule.params} :
                        q.default = "empty" /\ q.kind # "VAR_KEYWORD"}}
\* the names a rule declares, required or optional
DeclaredNames(rule) ==
    {p.name : p \in {q \in {rule.params[i] : i \in DOMAIN rule.params} :
                        q.kind # "VAR_KEYWORD"}}
AcceptsExtra(rule) == \E i \in DOMAIN rule.params : rule.params[i].kind = "VAR_KEYWORD"

RequirementsMet(rule) == RequiredNames(rule) \subseteq DOMAIN kwargs
ExpectedAdmitted(i) == RequiredNames(citation_rules[i]) \subseteq DOMAIN kwargs
ExpectedArgs(i) ==
    IF AcceptsExtra(citation_rules[i]) THEN kwargs
    ELSE [n \in DeclaredNames(citation_rules[i]) \cap DOMAIN kwargs |-> kwargs[n]]

\* what rule number i returns for the arguments kw, the caches being empty
RuleResult(i, kw) == RuleBody(citation_rules[i].name, kw, ColdStore).r

\* blocks separated by one blank line
RECURSIVE Document(_)
Document(blocks) ==
    IF Len(blocks) = 1 THEN blocks[1]
    ELSE blocks[1] \o <<NL, NL>> \o Document(Tail(blocks))

\* the trimmed outputs of the rules that ran and returned something
RECURSIVE InvokedBlocks(_)
InvokedBlocks(j) ==
    IF j > Len(invoked) THEN <<>>
    ELSE LET r == RuleResult(invoked[j].rule, invoked[j].kw)
         IN  (IF r.kind = "return" /\ r.value # None THEN <<Strip(r.value.s)>> ELSE <<>>)
             \o InvokedBlocks(j + 1)

\* the trimmed outputs of the rules the specification admits, in registration order
RECURSIVE ExpectedBlocks(_)
ExpectedBlocks(i) ==
    IF i > Len(citation_rules) THEN <<>>
    ELSE IF ~ExpectedAdmitted(i) THEN ExpectedBlocks(i + 1)
    ELSE LET r == RuleResult(i, ExpectedArgs(i))
         IN  (IF r.value # None THEN <<Strip(r.value.s)>> ELSE <<>>) \o ExpectedBlocks(i + 1)

InvokedRules == {invoked[j].rule : j \in DOMAIN invoked}

\* the number of reference blocks in a docstring
CountBlocks(d) == Cardinality({i \in DOMAIN d : d[i] = "bibtex"})
\* the k-th reference of o, dedented: the second line keeps its one extra space
ExpectedRef(o, k) == RefLine(o, k) \o <<NL, SP>> \o Rep("#", k)

HasRule(name) == \E i \in DOMAIN citation_rules : citation_rules[i].name = name
HasEmptyBlock(d) == \E i \in 1..(Len(d) - 3) : SubSeq(d, i, i + 3) = <<NL, NL, NL, NL>>

(***************************************************************************)
(* C1.  Admission correctness: in a call of citation that got past the     *)
(* binder, a rule is invoked only if every name it requires is a key of    *)
(* the canonical map; every such rule up to the end of the registry (or up *)
(* to the rule that raised) is invoked, once and in order; an exception    *)
(* comes from an invoked rule, never from the admission test; and the      *)
(* printed document is the one the registry gives once the rules lacking a *)
(* required name are taken out of it.                                      *)
(***************************************************************************)
AdmissionCorrectness ==
    Bound =>
        /\ \A i \in InvokedRules : ExpectedAdmitted(i)
        /\ \A j, k \in DOMAIN invoked : j < k => invoked[j].rule < invoked[k].rule
        /\ LET last == IF result.kind = "raise" /\ invoked # <<>>
                       THEN invoked[Len(invoked)].rule ELSE Len(citation_rules)
           IN  \A i \in 1..last : ExpectedAdmitted(i) => i \in InvokedRules
        /\ result.kind = "raise" =>
              /\ invoked # <<>>
              /\ RuleResult(invoked[Len(invoked)].rule, invoked[Len(invoked)].kw).kind = "raise"
        /\ result.kind = "return" =>
              printed = Printed(Dispatch(SelectSeq(citation_rules, RequirementsMet), kwargs, 1,
                                         [cites |-> <<_start>>, invoked |-> <<>>,
                                          st |-> ColdStore]))

\* a completed call in which some rules ran and others, lacking a required name, did not
AdmissionWitness ==
    /\ Completed
    /\ citation_rules = BuiltinRules
    /\ Len(invoked) >= 3
    /\ \E i \in DOMAIN citation_rules : ~ExpectedAdmitted(i) /\ i \notin InvokedRules
    /\ "solver" \in DOMAIN kwargs

(***************************************************************************)
(* C2.  Order stability and document shape: the document of a completed    *)
(* call is the start banner, the trimmed outputs of the admitted rules     *)
(* that returned something, in registration order, and the end banner,     *)
(* with one blank line between neighbours; making the call again prints    *)
(* the same document; when no rule is admitted the document is the start   *)
(* banner, a blank line, the end banner.                                   *)
(***************************************************************************)
OrderStability ==
    /\ Completed => printed = <<Document(<<_start>> \o ExpectedBlocks(1) \o <<_end>>)>>
    /\ (IsCitation /\ Repeated) => printed = prev.printed /\ result = prev.result
    /\ (Completed /\ \A i \in DOMAIN citation_rules : ~ExpectedAdmitted(i)) =>
          printed = <<_start \o <<NL, NL>> \o _end>>

\* a call made twice whose document has at least three rule blocks, one rule having
\* returned nothing
OrderStabilityWitness ==
    /\ Completed
    /\ Repeated
    /\ Len(InvokedBlocks(1)) >= 3
    /\ Len(invoked) > Len(InvokedBlocks(1))
    /\ Len(printed) = 1

(***************************************************************************)
(* C3.  Argument construction: a rule that accepts **kwargs is invoked     *)
(* with the whole canonical map, any other rule with exactly the entries   *)
(* of the map it declares, required or optional.  With R1 requiring terms  *)
(* and R2 requiring solver with dt0 optional: the map {terms, solver}      *)
(* gives alpha and beta-default; the map {solver, dt0: 9} gives beta-9     *)
(* alone.                                                                  *)
(***************************************************************************)
ArgumentConstruction ==
    /\ Bound => \A j \in DOMAIN invoked : invoked[j].kw = ExpectedArgs(invoked[j].rule)
    /\ (Completed /\ citation_rules = ScenarioRules /\ DOMAIN kwargs = {"terms", "solver"}) =>
          printed = <<Document(<<_start, <<"alpha">>, <<"beta-", "default">>, _end>>)>>
    /\ (Completed /\ citation_rules = ScenarioRules /\ DOMAIN kwargs = {"solver", "dt0"}
        /\ kwargs.dt0 = Float(9)) =>
          printed = <<Document(<<_start, <<"beta-", "9">>, _end>>)>>

\* one call in which a **kwargs rule got a name it does not declare and another rule
\* got fewer entries than the map holds
ArgumentConstructionWitness ==
    /\ Completed
    /\ \E j, k \in DOMAIN invoked :
          /\ AcceptsExtra(citation_rules[invoked[j].rule])
          /\ ~(DOMAIN invoked[j].kw \subseteq DeclaredNames(citation_rules[invoked[j].rule]))
          /\ ~AcceptsExtra(citation_rules[invoked[k].rule])
          /\ DOMAIN invoked[k].kw # DOMAIN kwargs
          /\ DOMAIN invoked[k].kw # DeclaredNames(citation_rules[invoked[k].rule])

(***************************************************************************)
(* C4.  Binder contract: a call with more positional values than           *)
(* diffeqsolve has positional parameters, or with a name diffeqsolve does  *)
(* not have, fails with a binding error before any rule runs; otherwise    *)
(* the canonical map holds exactly the names supplied, the i-th positional *)
(* value under the i-th parameter name and each named value under its      *)
(* name.                                                                   *)
(***************************************************************************)
BinderContract ==
    IsCitation =>
        LET P == _diffeqsignature
            supplied == {P[i].name : i \in 1..Len(call.args) \cap 1..Len(P)}
                        \cup DOMAIN call.kw
        IN  /\ (\/ Len(call.args) > NumPositional
                \/ \E n \in DOMAIN call.kw : \A i \in 1..Len(P) : P[i].name # n) =>
                  /\ BindingFailed
                  /\ invoked = <<>>
                  /\ scanned = <<>>
                  /\ printed = <<>>
            /\ ~BindingFailed =>
                  /\ DOMAIN kwargs = supplied
                  /\ \A i \in 1..Len(call.args) : kwargs[P[i].name] = call.args[i]
                  /\ \A n \in DOMAIN call.kw : kwargs[n] = call.kw[n]

\* a bound call with positional values and a named one, some parameter left out
BinderWitness ==
    /\ Bound
    /\ Len(call.args) >= 2
    /\ DOMAIN call.kw # {}
    /\ DOMAIN kwargs # ParamNames(_diffeqsignature)
    /\ invoked # <<>>

(***************************************************************************)
(* C5.  A parameter given both by position and by name.  As claimed:       *)
(* binding succeeds and the named value is the one in the canonical map.   *)
(***************************************************************************)
BothForms ==
    /\ IsCitation
    /\ Len(call.args) <= NumPositional
    /\ DOMAIN call.kw \subseteq ParamNames(_diffeqsignature)
    /\ \E i \in 1..Len(call.args) : _diffeqsignature[i].name \in DOMAIN call.kw

NamedOverridesPositional ==
    BothForms => /\ ~BindingFailed
                 /\ \A n \in DOMAIN call.kw : kwargs[n] = call.kw[n]

(***************************************************************************)
(* C5, as the code has it: a parameter given both by position and by name  *)
(* makes the binder fail with a TypeError (multiple values for the         *)
(* argument); no rule runs and nothing is printed.                         *)
(***************************************************************************)
BothFormsRejected ==
    BothForms => /\ BindingFailed
                 /\ result.exc = "TypeError"
                 /\ result.msg = "multiple values for argument"
                 /\ invoked = <<>>
                 /\ printed = <<>>

BothFormsWitness ==
    /\ BothForms
    /\ result.kind = "raise"
    /\ Len(call.args) >= 2
    /\ call.kw[_diffeqsignature[1].name] # call.args[1]

(***************************************************************************)
(* C6.  No partial document on failure: a call of citation that raises     *)
(* has printed nothing; and it does raise when binding fails, when an      *)
(* admitted rule looks up the single reference of an object documented     *)
(* with no block or several, and when the PID rule, the terms not being an *)
(* SDE, is given a traced pcoeff or dcoeff.                                *)
(***************************************************************************)
PIDIndeterminate ==
    /\ HasRule("_pid_controller")
    /\ "stepsize_controller" \in DOMAIN kwargs
    /\ kwargs.stepsize_controller.type = "PIDController"
    /\ Tracer \in {kwargs.stepsize_controller.pcoeff, kwargs.stepsize_controller.dcoeff}
    /\ ~("terms" \in DOMAIN kwargs /\ is_sde(kwargs.terms))

SingleLookupFails ==
    \/ /\ HasRule("_solvers")
       /\ "solver" \in DOMAIN kwargs
       /\ kwargs.solver.type \in SingleReferenceSolvers
       /\ CountBlocks(doc[kwargs.solver.type]) # 1
    \/ /\ HasRule("_backsolve_rms_norm")
       /\ "adjoint" \in DOMAIN kwargs
       /\ kwargs.adjoint = BacksolveAdjoint(<<"adjoint_rms_seminorm">>)
       /\ CountBlocks(doc["adjoint_rms_seminorm"]) # 1

NoPartialDocument ==
    IsCitation =>
        /\ result.kind = "raise" => printed = <<>>
        /\ (Bound /\ (PIDIndeterminate \/ SingleLookupFails)) => result.kind = "raise"

\* the PID rule raised after earlier rules had returned their blocks
NoPartialDocumentWitness ==
    /\ IsCitation
    /\ result = Raise("RuntimeError")
    /\ PIDIndeterminate
    /\ Len(invoked) >= 3
    /\ Len(InvokedBlocks(1)) >= 2
    /\ printed = <<>>

(***************************************************************************)
(* C7.  Single-extraction strictness: _parse_reference fails, on the first *)
(* call and on every later one, for an object documented with no reference *)
(* block or with several; for an object with exactly one it returns the    *)
(* block dedented, keeps it in the cache under the object, and returns the *)
(* same text on a later call without reading the documentation again.      *)
(* Whatever calls were made, each entry of the cache is the one dedented   *)
(* block of its object.                                                    *)
(***************************************************************************)
SingleExtractionStrictness ==
    /\ \A o \in DOMAIN cache_ref :
          CountBlocks(doc[o]) = 1 /\ cache_ref[o] = ExpectedRef(o, 1)
    /\ (call # Idle /\ call.op = "_parse_reference") =>
          LET o == call.obj
          IN  /\ CountBlocks(doc[o]) # 1 =>
                    result = Raise("ValueError") /\ o \notin DOMAIN cache_ref
              /\ CountBlocks(doc[o]) = 1 =>
                    /\ result = Ok(ExpectedRef(o, 1))
                    /\ o \in DOMAIN cache_ref
                    /\ Repeated => scanned = <<>>
              /\ Repeated => result = prev.result

\* a second call for an object with one block, answered from the cache
SingleExtractionWitness ==
    /\ call # Idle
    /\ call.op = "_parse_reference"
    /\ Repeated
    /\ result.kind = "return"
    /\ result.value = <<call.obj, NL, SP, "#">>
    /\ scanned = <<>>

(***************************************************************************)
(* C8.  Multi-extraction: _parse_reference_multi returns every reference   *)
(* block of the object, dedented, in document order (none if there is      *)
(* none); a later call for the object returns the identical list from the  *)
(* cache without reading the documentation; and an entry of the cache,     *)
(* once there, is never changed or removed.                                *)
(***************************************************************************)
MultiExtractionReturns ==
    (call # Idle /\ call.op = "_parse_reference_multi") =>
        LET o == call.obj
        IN  /\ result.kind = "return"
            /\ result.value.refs = [k \in 1..CountBlocks(doc[o]) |-> ExpectedRef(o, k)]
            /\ o \in DOMAIN cache_multi
            /\ cache_multi[o] = result.value
            /\ Repeated => result = prev.result /\ scanned = <<>>

EntryKept ==
    \A o \in DOMAIN cache_multi : o \in DOMAIN cache_multi' /\ cache_multi'[o] = cache_multi[o]

MultiExtraction == [] MultiExtractionReturns /\ [][EntryKept]_vars

\* a second call for an object with two blocks, answered with the list of the first
MultiExtractionWitness ==
    /\ call # Idle
    /\ call.op = "_parse_reference_multi"
    /\ Repeated
    /\ Len(result.value.refs) = 2
    /\ result.value.refs[1] # result.value.refs[2]
    /\ result.value.gen = 1
    /\ scanned = <<>>

(***************************************************************************)
(* C9.  Threads.  As claimed: in any interleaving the extraction for one   *)
(* object is computed at most once (objects whose single extraction fails  *)
(* aside, a failure not being cached).                                     *)
(***************************************************************************)
Computations(fn, o) == Cardinality({i \in DOMAIN scanned : scanned[i] = Scan(fn, o)})

ComputedAtMostOnce ==
    \A fn \in StoreFunctions, o \in Objs :
        (fn = "_parse_reference" => CountBlocks(doc[o]) = 1) => Computations(fn, o) <= 1

(***************************************************************************)
(* C9, as the code has it: nothing serializes the first population of an   *)
(* entry, so each thread that looks the object up before any thread has    *)
(* stored the entry computes the extraction itself.  The computations are  *)
(* as many as the calls that missed; each yields the same references, so   *)
(* every thread is returned, and the cache holds, the dedented blocks of   *)
(* the object's documentation, though not always the same list object.     *)
(***************************************************************************)
Returned(t) == th[t].calls > 0 /\ th[t].pc = "idle"

ThreadsObserveEqualReferences ==
    /\ \A o \in DOMAIN cache_ref : cache_ref[o] = ExpectedRef(o, 1)
    /\ \A o \in DOMAIN cache_multi :
          cache_multi[o].refs = [k \in 1..CountBlocks(doc[o]) |-> ExpectedRef(o, k)]
    /\ \A t \in Threads :
          (Returned(t) /\ th[t].ret.kind = "return") =>
              IF th[t].fn = "_parse_reference"
              THEN th[t].ret.value = ExpectedRef(th[t].obj, 1)
              ELSE th[t].ret.value.refs =
                       [k \in 1..CountBlocks(doc[th[t].obj]) |-> ExpectedRef(th[t].obj, k)]
    /\ \A t, u \in Threads :
          (/\ Returned(t) /\ Returned(u)
           /\ th[t].fn = th[u].fn /\ th[t].obj = th[u].obj
           /\ th[t].ret.kind = "return" /\ th[u].ret.kind = "return") =>
              IF th[t].fn = "_parse_reference"
              THEN th[t].ret.value = th[u].ret.value
              ELSE th[t].ret.value.refs = th[u].ret.value.refs
    /\ \A fn \in StoreFunctions, o \in Objs :
          Computations(fn, o) <= Cardinality(Threads) * MaxThreadCalls

\* two threads missed the same entry, both computed it, and were returned two list
\* objects holding the same two references
ThreadsWitness ==
    \E t, u \in Threads :
        /\ Returned(t) /\ Returned(u)
        /\ th[t].fn = "_parse_reference_multi" /\ th[u].fn = "_parse_reference_multi"
        /\ th[t].obj = th[u].obj
        /\ th[t].ret.value.gen # th[u].ret.value.gen
        /\ th[t].ret.value.refs = th[u].ret.value.refs
        /\ Len(th[t].ret.value.refs) = 2
        /\ Computations("_parse_reference_multi", th[t].obj) = 2

(***************************************************************************)
(* C10.  As claimed: the document of a completed call holds no empty block *)
(* (two blank-line separators in a row).                                   *)
(***************************************************************************)
NoEmptyBlock == Completed => ~HasEmptyBlock(printed[1])

(***************************************************************************)
(* C10, as the code has it: what an admitted rule returns is collected     *)
(* unless it is None.  A rule that returns None contributes no block; a    *)
(* rule that returns text which is empty once trimmed contributes an empty *)
(* block: the document is the banners around one trimmed block for each    *)
(* invoked rule that returned text, and it holds an empty block exactly    *)
(* when some invoked rule returned text that is empty once trimmed.        *)
(***************************************************************************)
ReturnedBlankText(j) ==
    LET r == RuleResult(invoked[j].rule, invoked[j].kw)
    IN  r.value # None /\ Strip(r.value.s) = <<>>

CollectedUnlessNone ==
    Completed =>
        /\ HasEmptyBlock(printed[1]) <=> \E j \in DOMAIN invoked : ReturnedBlankText(j)
        /\ printed = <<Document(<<_start>> \o InvokedBlocks(1) \o <<_end>>)>>

\* a document with an empty block, from a rule that returned empty text, after a rule
\* that returned None and contributed nothing
CollectedWitness ==
    /\ Completed
    /\ HasEmptyBlock(printed[1])
    /\ \E j \in DOMAIN invoked : ReturnedBlankText(j)
    /\ \E j \in DOMAIN invoked : RuleResult(invoked[j].rule, invoked[j].kw).value = None

(***************************************************************************)
(* C11.  Dopri8: the document of a completed call whose solver is a Dopri8 *)
(* holds the Dormand--Prince 8(7) reference, and it holds the interpolant  *)
(* reference (the second block of Dopri8's documentation) if and only if a *)
(* saveat was supplied and either saveat.dense is true or some SubSaveAt   *)
(* leaf of it has ts other than None.                                      *)
(***************************************************************************)
Dopri8Call ==
    /\ Completed
    /\ HasRule("_solvers")
    /\ "solver" \in DOMAIN kwargs
    /\ kwargs.solver.type = "Dopri8"

InterpolantWanted ==
    /\ "saveat" \in DOMAIN kwargs
    /\ kwargs.saveat.type = "SaveAt"
    /\ \/ kwargs.saveat.dense
       \/ \E i \in DOMAIN kwargs.saveat.leaves : kwargs.saveat.leaves[i].ts # None

Dopri8Interpolant ==
    Dopri8Call =>
        /\ Contains(printed[1], "%Dormand-Prince-8(7)")
        /\ Contains(printed[1], "Bogacki") <=> InterpolantWanted

====
